---- MODULE Spec2Model ----
(***************************************************************************)
(* Order / inventory consistency core of the logistics server:             *)
(*   server/src/handlers/orders.ts     order and order-item handlers       *)
(*   server/src/handlers/inventory.ts  inventory ledger handlers           *)
(*   server/src/handlers/deliveries.ts createDelivery                      *)
(*   server/src/db/schema.ts           tables, column types, foreign keys  *)
(*   server/src/schema.ts, index.ts    zod input schemas and tRPC router   *)
(*                                                                         *)
(* Money.  A JavaScript number carrying a price is counted in mills        *)
(* (tenths of a cent), so that inputs with more than two decimals exist.   *)
(* A numeric(p,2) column is counted in cents.  Writing a number into such  *)
(* a column rounds it half away from zero and fails when the rounded       *)
(* value needs more than p digits; reading it back (parseFloat) gives the  *)
(* stored cents as a number.  Timestamps, addresses, notes, order numbers  *)
(* and warehouse locations take part in no decision and are left out.      *)
(*                                                                         *)
(* A handler is modelled twice over the same statements: as the set of     *)
(* results of running it alone from the current store (...Runs), which     *)
(* the one-at-a-time specifications commit in one step, and, for the item  *)
(* handlers, statement by statement (SpecSteps).                           *)
(***************************************************************************)
EXTENDS Integers, FiniteSets, Sequences, TLC

----------------------------------------------------------------------------
(* Bounds of the model *)

MaxOrders == 2
MaxItems == 2
MaxInventory == 2
MaxDeliveries == 1

\* scaled-down capacity of numeric(10,2) (unit_price) and of numeric(12,2)
\* (total_price, total_amount), in cents
UnitPriceMax == 2
AmountMax == 3

\* scaled-down range of an integer column
IntegerMax == 3
IntegerMin == -IntegerMax - 1

\* inputs the callers send: prices in mills, ids of rows that exist or not
\* (an id is absent until its row is created and after it is deleted)
UnitPriceInputs == {5, 20}
QuantityInputs == {1, 3}
ClientIdInputs == {2, 3}
StatusInputs == {"confirmed", "undefined"}
ProductIdInputs == {1, 2}
ProductPriceInputs == {20, 30}
UserIdInputs == {1, 2, 3}
OrderIdInputs == 1 .. MaxOrders
ItemIdInputs == 1 .. MaxItems
InventoryIdInputs == 1 .. MaxInventory

\* stock counts the callers send; the router lets a reserve or release
\* quantity of any sign through
StockInputs == {0, 2}
ReserveQuantityInputs == -1 .. 2

\* thresholds the callers of getLowStockItems send
ThresholdInputs == 0 .. 2

----------------------------------------------------------------------------
(* Enumerations and the rows the store starts with *)

orderStatusEnum == {"pending", "confirmed", "processing", "shipped", "delivered", "cancelled"}

\* seedDatabase inserts the admin first and the client second
usersTable == (1 :> [role |-> "admin"]) @@ (2 :> [role |-> "client"])

\* the catalogue holds one product, priced at one cent
testProduct == (1 :> [unit_price |-> 1])

----------------------------------------------------------------------------
(* Column conversions *)

\* a number written into a numeric(_,2) column: rounded half away from zero
NumericRound(m) == (m + 5) \div 10

\* parseFloat of a numeric(_,2) column
parseFloat(c) == c * 10

\* quantity * unit_price in double arithmetic, then written into
\* numeric(12,2).  The double product is exact for quantity 1 and 2; for
\* larger factors a product lying exactly on a half cent may come out one
\* ulp low (3 * 1.005 = 3.0149999999999997) or not (3 * 0.025), so both
\* roundings are outcomes.
totalPrice(quantity, unit_price) ==
    LET m == quantity * unit_price
    IN  IF m % 10 = 5 /\ quantity > 2
        THEN {m \div 10, m \div 10 + 1}
        ELSE {NumericRound(m)}

\* an integer column holds IntegerMin .. IntegerMax
InRange(n) == IntegerMin <= n /\ n <= IntegerMax

----------------------------------------------------------------------------
VARIABLES
    productsTable,     \* id -> [unit_price]
    ordersTable,       \* id -> [client_id, status, total_amount]
    orderItemsTable,   \* id -> [order_id, product_id, quantity, unit_price, total_price]
    deliveriesTable,   \* id -> [order_id]
    inventoryTable,    \* id -> [client_id, product_id, quantity, reserved_quantity]
    seq,               \* the serial sequences of the tables
    last,              \* the most recent completed call: [op, outcome]
    calls              \* the calls in flight, statement by statement (SpecSteps)

vars == <<productsTable, ordersTable, orderItemsTable, deliveriesTable,
          inventoryTable, seq, last, calls>>

Empty == [x \in {} |-> 0]

\* an optional number of an input: <<>> when left out, <<n>> when given
undefined == <<>>

optional(S) == {undefined} \cup {<<n>> : n \in S}

Insert(table, id, row) ==
    [x \in DOMAIN table \cup {id} |-> IF x = id THEN row ELSE table[x]]

Delete(table, ids) == [x \in DOMAIN table \ ids |-> table[x]]

Procs == {1, 2}

Idle == [pc |-> "idle"]

Init ==
    /\ productsTable = testProduct
    /\ ordersTable = Empty
    /\ orderItemsTable = Empty
    /\ deliveriesTable = Empty
    /\ inventoryTable = Empty
    /\ seq = [orders |-> 0, order_items |-> 0, deliveries |-> 0, inventory |-> 0]
    /\ last = [op |-> "none", outcome |-> "ok"]
    /\ calls = [p \in Procs |-> Idle]

----------------------------------------------------------------------------
(* Orders: the statements *)

\* WHERE order_id = orderId
itemsOfAnyOrder(items, orderId) == DOMAIN items

itemsOf(items, orderId) == {i \in DOMAIN items : items[i].order_id = orderId}

RECURSIVE SumPrices(_, _)
SumPrices(items, ids) ==
    IF ids = {} THEN 0
    ELSE LET i == CHOOSE x \in ids : TRUE
         IN  items[i].total_price + SumPrices(items, ids \ {i})

\* SELECT COALESCE(SUM(total_price), 0) FROM order_items WHERE order_id = orderId,
\* read with parseFloat
selectTotal(items, orderId) == parseFloat(SumPrices(items, itemsOf(items, orderId)))

\* UPDATE orders SET total_amount = total WHERE id = orderId
updateTotalAdding(orders, orderId, total) ==
    IF orderId \notin DOMAIN orders
    THEN [outcome |-> "ok", orders |-> orders]
    ELSE IF orders[orderId].total_amount + NumericRound(total) > AmountMax
    THEN [outcome |-> "numeric field overflow", orders |-> orders]
    ELSE [outcome |-> "ok",
          orders |-> [orders EXCEPT ![orderId].total_amount =
                                       orders[orderId].total_amount
                                       + NumericRound(total)]]

updateTotalOfExisting(orders, orderId, total) ==
    IF orderId \notin DOMAIN orders
    THEN [outcome |-> "Order not found", orders |-> orders]
    ELSE IF NumericRound(total) > AmountMax
    THEN [outcome |-> "numeric field overflow", orders |-> orders]
    ELSE [outcome |-> "ok",
          orders |-> [orders EXCEPT ![orderId].total_amount = NumericRound(total)]]

updateTotal(orders, orderId, total) ==
    IF orderId \notin DOMAIN orders
    THEN [outcome |-> "ok", orders |-> orders]
    ELSE IF NumericRound(total) > AmountMax
    THEN [outcome |-> "numeric field overflow", orders |-> orders]
    ELSE [outcome |-> "ok",
          orders |-> [orders EXCEPT ![orderId].total_amount = NumericRound(total)]]

\* the rows INSERT INTO order_items can store for an input, none when a
\* column overflows
insertItemRowsAtProductPrice(input) ==
    { [order_id |-> input.order_id, product_id |-> input.product_id,
       quantity |-> input.quantity,
       unit_price |-> productsTable[input.product_id].unit_price,
       total_price |-> tp] :
      tp \in {t \in totalPrice(input.quantity,
                               parseFloat(productsTable[input.product_id].unit_price)) :
                 t <= AmountMax} }

insertItemRows(input) ==
    { [order_id |-> input.order_id, product_id |-> input.product_id,
       quantity |-> input.quantity,
       unit_price |-> NumericRound(input.unit_price), total_price |-> tp] :
      tp \in {t \in totalPrice(input.quantity, input.unit_price) :
                 /\ t <= AmountMax
                 /\ NumericRound(input.unit_price) <= UnitPriceMax} }

\* DELETE FROM orders WHERE id = id, refused while a delivery references it
deleteOrderRow(orders, deliveries, id) ==
    IF \E d \in DOMAIN deliveries : deliveries[d].order_id = id
    THEN [outcome |-> "foreign key violation", orders |-> orders]
    ELSE [outcome |-> "ok", orders |-> Delete(orders, {id})]

----------------------------------------------------------------------------
(* Orders: the handlers run alone from the current store.  A run is what   *)
(* the call returns or throws and the orders, items and sequences it       *)
(* leaves behind.                                                          *)

OrderRun(outcome, ret, orders, items, seqs) ==
    [outcome |-> outcome, ret |-> ret, orders |-> orders, items |-> items,
     seq |-> seqs]

\* a call that throws before it has written anything
OrderThrows(message) == OrderRun(message, 0, ordersTable, orderItemsTable, seq)

\* SELECT ... FROM users WHERE id = clientId
selectUserClientOnly(clientId) ==
    {u \in DOMAIN usersTable : u = clientId /\ usersTable[u].role = "client"}

selectUser(clientId) == {u \in DOMAIN usersTable : u = clientId}

createOrderRuns(input) ==
    IF selectUser(input.client_id) = {}
    THEN {OrderThrows("Client not found")}
    ELSE LET id == seq.orders + 1
         IN  {OrderRun("ok", id,
                       Insert(ordersTable, id,
                              [client_id |-> input.client_id, status |-> "pending",
                               total_amount |-> NumericRound(0)]),
                       orderItemsTable, [seq EXCEPT !.orders = id])}

updateOrderRunsSettingTotal(input) ==
    IF input.id \notin DOMAIN ordersTable
    THEN {OrderThrows("Order not found")}
    ELSE {OrderRun("ok", input.id,
                   [ordersTable EXCEPT ![input.id].total_amount = NumericRound(0)],
                   orderItemsTable, seq)}

updateOrderRunsFromOpenOnly(input) ==
    IF input.id \notin DOMAIN ordersTable
    THEN {OrderThrows("Order not found")}
    ELSE IF ordersTable[input.id].status \in {"delivered", "cancelled"}
    THEN {OrderThrows("Order is closed")}
    ELSE {OrderRun("ok", input.id,
                   IF input.status # "undefined"
                   THEN [ordersTable EXCEPT ![input.id].status = input.status]
                   ELSE ordersTable,
                   orderItemsTable, seq)}

updateOrderRuns(input) ==
    IF input.id \notin DOMAIN ordersTable
    THEN {OrderThrows("Order not found")}
    ELSE {OrderRun("ok", input.id,
                   IF input.status # "undefined"
                   THEN [ordersTable EXCEPT ![input.id].status = input.status]
                   ELSE ordersTable,
                   orderItemsTable, seq)}

\* calculateOrderTotal run alone from a store of orders and items
calculateOrderTotalFrom(orders, items, orderId) ==
    LET total == selectTotal(items, orderId)
        upd == updateTotal(orders, orderId, total)
    IN  OrderRun(upd.outcome, IF upd.outcome = "ok" THEN total ELSE 0,
                 upd.orders, items, seq)

calculateOrderTotalRuns(orderId) ==
    {calculateOrderTotalFrom(ordersTable, orderItemsTable, orderId)}

addOrderItemRuns(input) ==
    IF input.order_id \notin DOMAIN ordersTable
    THEN {OrderThrows("Order not found")}
    ELSE IF input.product_id \notin DOMAIN productsTable
    THEN {OrderThrows("Product not found")}
    ELSE IF insertItemRows(input) = {}
    THEN {OrderThrows("numeric field overflow")}
    ELSE { LET id == seq.order_items + 1
               items == Insert(orderItemsTable, id, row)
               upd == updateTotal(ordersTable, input.order_id,
                                  selectTotal(items, input.order_id))
           IN  OrderRun(upd.outcome, IF upd.outcome = "ok" THEN id ELSE 0,
                        upd.orders, items, [seq EXCEPT !.order_items = id]) :
           row \in insertItemRows(input) }

removeOrderItemRuns(id) ==
    IF id \notin DOMAIN orderItemsTable
    THEN {OrderThrows("Order item not found")}
    ELSE LET orderId == orderItemsTable[id].order_id
             items == Delete(orderItemsTable, {id})
             upd == updateTotal(ordersTable, orderId, selectTotal(items, orderId))
         IN  {OrderRun(upd.outcome, IF upd.outcome = "ok" THEN orderId ELSE 0,
                       upd.orders, items, seq)}

deleteOrderRuns(id) ==
    IF id \notin DOMAIN ordersTable
    THEN {OrderThrows("Order not found")}
    ELSE LET del == deleteOrderRow(ordersTable, deliveriesTable, id)
         IN  {OrderRun(del.outcome, 0, del.orders,
                       Delete(orderItemsTable, itemsOf(orderItemsTable, id)), seq)}

\* the store after a run, within the bounds of the model
OrderCall(op, run) ==
    /\ run.seq.orders <= MaxOrders
    /\ run.seq.order_items <= MaxItems
    /\ ordersTable' = run.orders
    /\ orderItemsTable' = run.items
    /\ seq' = run.seq
    /\ last' = [op |-> op, outcome |-> run.outcome]
    /\ UNCHANGED <<productsTable, deliveriesTable, inventoryTable, calls>>

createOrder(input) == \E run \in createOrderRuns(input) : OrderCall("createOrder", run)

updateOrder(input) == \E run \in updateOrderRuns(input) : OrderCall("updateOrder", run)

calculateOrderTotal(orderId) ==
    \E run \in calculateOrderTotalRuns(orderId) : OrderCall("calculateOrderTotal", run)

addOrderItem(input) == \E run \in addOrderItemRuns(input) : OrderCall("addOrderItem", run)

removeOrderItem(id) == \E run \in removeOrderItemRuns(id) : OrderCall("removeOrderItem", run)

deleteOrder(id) == \E run \in deleteOrderRuns(id) : OrderCall("deleteOrder", run)

----------------------------------------------------------------------------
(* Products *)

\* updateProduct: UPDATE products SET unit_price = ... WHERE id = input.id,
\* the price left as it is when the input has none; no row updated is
\* reported as not found.  A run is what the call throws and the products,
\* orders and items it leaves behind; it has no statement on orders or items.
ProductRun(outcome, products) ==
    [outcome |-> outcome, products |-> products, orders |-> ordersTable,
     items |-> orderItemsTable]

updateProductRuns(input) ==
    IF input.id \notin DOMAIN productsTable
    THEN {ProductRun("Product not found", productsTable)}
    ELSE IF input.unit_price = undefined
    THEN {ProductRun("ok", productsTable)}
    ELSE IF NumericRound(input.unit_price[1]) > UnitPriceMax
    THEN {ProductRun("numeric field overflow", productsTable)}
    ELSE {ProductRun("ok", [productsTable EXCEPT ![input.id].unit_price =
                                                   NumericRound(input.unit_price[1])])}

updateProduct(input) ==
    \E run \in updateProductRuns(input) :
        /\ productsTable' = run.products
        /\ ordersTable' = run.orders
        /\ orderItemsTable' = run.items
        /\ last' = [op |-> "updateProduct", outcome |-> run.outcome]
        /\ UNCHANGED <<deliveriesTable, inventoryTable, seq, calls>>

----------------------------------------------------------------------------
(* Deliveries *)

createDelivery(input) ==
    IF input.order_id \notin DOMAIN ordersTable
    THEN /\ last' = [op |-> "createDelivery", outcome |-> "foreign key violation"]
         /\ UNCHANGED <<productsTable, ordersTable, orderItemsTable,
                        deliveriesTable, inventoryTable, seq, calls>>
    ELSE /\ seq.deliveries < MaxDeliveries
         /\ LET id == seq.deliveries + 1
            IN  /\ deliveriesTable' =
                       Insert(deliveriesTable, id, [order_id |-> input.order_id])
                /\ seq' = [seq EXCEPT !.deliveries = id]
                /\ last' = [op |-> "createDelivery", outcome |-> "ok"]
         /\ UNCHANGED <<productsTable, ordersTable, orderItemsTable,
                        inventoryTable, calls>>

----------------------------------------------------------------------------
(* Inventory: the statements *)

InventoryNotFoundError == "Inventory not found for this product and client"

InsufficientError == "Insufficient inventory available for reservation"

OverReleaseError == "Cannot release more inventory than is reserved"

\* SELECT ... WHERE product_id = productId AND client_id = clientId.  The
\* query has no ORDER BY and an UPDATE moves a row in the heap, so any
\* matching row can come first: inventory[0] is any one of them.
selectInventoryAnyClient(productId, clientId) ==
    {i \in DOMAIN inventoryTable : inventoryTable[i].product_id = productId}

selectInventory(productId, clientId) ==
    {i \in DOMAIN inventoryTable :
        /\ inventoryTable[i].product_id = productId
        /\ inventoryTable[i].client_id = clientId}

\* const availableQuantity = inventory[0].quantity - inventory[0].reserved_quantity
availableQuantityNoHold(row) == row.quantity

availableQuantity(row) == row.quantity - row.reserved_quantity

\* if (availableQuantity < quantity) throw
insufficientAtLimit(row, quantity) == availableQuantity(row) <= quantity

insufficient(row, quantity) == availableQuantity(row) < quantity

\* if (inventory[0].reserved_quantity < quantity) throw
overReservedAtLimit(row, quantity) == row.reserved_quantity <= quantity

overReserved(row, quantity) == row.reserved_quantity < quantity

\* set({ reserved_quantity: inventory[0].reserved_quantity + quantity })
reserveSetTakingStock(row, quantity) ==
    [row EXCEPT !.reserved_quantity = row.reserved_quantity + quantity,
                !.quantity = row.quantity - quantity]

reserveSet(row, quantity) ==
    [row EXCEPT !.reserved_quantity = row.reserved_quantity + quantity]

\* set({ quantity: inventory[0].quantity - quantity,
\*       reserved_quantity: inventory[0].reserved_quantity - quantity })
releaseSetHoldOnly(row, quantity) ==
    [row EXCEPT !.reserved_quantity = row.reserved_quantity - quantity]

releaseSet(row, quantity) ==
    [row EXCEPT !.quantity = row.quantity - quantity,
                !.reserved_quantity = row.reserved_quantity - quantity]

\* the integer columns of a row written by an UPDATE
rowInRange(row) == InRange(row.quantity) /\ InRange(row.reserved_quantity)

----------------------------------------------------------------------------
(* Inventory: the handlers run alone from the current store.  A run is    *)
(* what the call throws, the row it matched or made (0 when none) and the *)
(* rows and sequences it leaves behind.                                   *)

InventoryRun(outcome, ret, inventory, seqs) ==
    [outcome |-> outcome, ret |-> ret, inventory |-> inventory, seq |-> seqs]

InventoryThrows(message, ret) == InventoryRun(message, ret, inventoryTable, seq)

\* SELECT ... FROM users WHERE id = clientId AND role = 'client'
selectClientAnyRole(clientId) == {u \in DOMAIN usersTable : u = clientId}

selectClient(clientId) ==
    {u \in DOMAIN usersTable : u = clientId /\ usersTable[u].role = "client"}

createInventoryRunsUniquePair(input) ==
    IF selectClient(input.client_id) = {}
    THEN {InventoryThrows("Client not found or user is not a client", 0)}
    ELSE IF input.product_id \notin DOMAIN productsTable
    THEN {InventoryThrows("Product not found", 0)}
    ELSE IF selectInventory(input.product_id, input.client_id) # {}
    THEN {InventoryThrows("duplicate key value", 0)}
    ELSE LET id == seq.inventory + 1
         IN  {InventoryRun("ok", id,
                           Insert(inventoryTable, id,
                                  [client_id |-> input.client_id,
                                   product_id |-> input.product_id,
                                   quantity |-> input.quantity,
                                   reserved_quantity |-> 0]),
                           [seq EXCEPT !.inventory = id])}

createInventoryRuns(input) ==
    IF selectClient(input.client_id) = {}
    THEN {InventoryThrows("Client not found or user is not a client", 0)}
    ELSE IF input.product_id \notin DOMAIN productsTable
    THEN {InventoryThrows("Product not found", 0)}
    ELSE LET id == seq.inventory + 1
         IN  {InventoryRun("ok", id,
                           Insert(inventoryTable, id,
                                  [client_id |-> input.client_id,
                                   product_id |-> input.product_id,
                                   quantity |-> input.quantity,
                                   reserved_quantity |-> 0]),
                           [seq EXCEPT !.inventory = id])}

updateInventoryRunsValidated(input) ==
    IF input.id \notin DOMAIN inventoryTable
    THEN {InventoryThrows("Inventory not found", 0)}
    ELSE LET row == inventoryTable[input.id]
             quantity == IF input.quantity # undefined
                         THEN input.quantity[1] ELSE row.quantity
             reserved == IF input.reserved_quantity # undefined
                         THEN input.reserved_quantity[1] ELSE row.reserved_quantity
         IN  IF reserved > quantity
             THEN {InventoryThrows("Reserved quantity exceeds quantity", input.id)}
             ELSE {InventoryRun("ok", input.id,
                                [inventoryTable EXCEPT
                                   ![input.id].quantity = quantity,
                                   ![input.id].reserved_quantity = reserved],
                                seq)}

updateInventoryRuns(input) ==
    IF input.id \notin DOMAIN inventoryTable
    THEN {InventoryThrows("Inventory not found", 0)}
    ELSE LET row == inventoryTable[input.id]
             quantity == IF input.quantity # undefined
                         THEN input.quantity[1] ELSE row.quantity
             reserved == IF input.reserved_quantity # undefined
                         THEN input.reserved_quantity[1] ELSE row.reserved_quantity
         IN  {InventoryRun("ok", input.id,
                           [inventoryTable EXCEPT
                              ![input.id].quantity = quantity,
                              ![input.id].reserved_quantity = reserved],
                           seq)}

deleteInventoryRuns(id) ==
    IF id \notin DOMAIN inventoryTable
    THEN {InventoryThrows("Inventory not found", 0)}
    ELSE {InventoryRun("ok", id, Delete(inventoryTable, {id}), seq)}

reserveInventoryRuns(productId, clientId, quantity) ==
    LET inventory == selectInventory(productId, clientId)
    IN  IF inventory = {}
        THEN {InventoryThrows("Inventory not found for this product and client", 0)}
        ELSE { LET row == inventoryTable[first]
               IN  IF insufficient(row, quantity)
                   THEN InventoryThrows(
                            "Insufficient inventory available for reservation", first)
                   ELSE IF ~ rowInRange(reserveSet(row, quantity))
                   THEN InventoryThrows("integer out of range", first)
                   ELSE InventoryRun("ok", first,
                                     [inventoryTable EXCEPT
                                        ![first] = reserveSet(row, quantity)],
                                     seq) :
               first \in inventory }

releaseInventoryRuns(productId, clientId, quantity) ==
    LET inventory == selectInventory(productId, clientId)
    IN  IF inventory = {}
        THEN {InventoryThrows("Inventory not found for this product and client", 0)}
        ELSE { LET row == inventoryTable[first]
               IN  IF overReserved(row, quantity)
                   THEN InventoryThrows(
                            "Cannot release more inventory than is reserved", first)
                   ELSE IF ~ rowInRange(releaseSet(row, quantity))
                   THEN InventoryThrows("integer out of range", first)
                   ELSE InventoryRun("ok", first,
                                     [inventoryTable EXCEPT
                                        ![first] = releaseSet(row, quantity)],
                                     seq) :
               first \in inventory }

\* getLowStockItems: SELECT ... WHERE client_id = clientId AND
\* quantity <= threshold; a query, it writes nothing.  The rows are given by
\* their ids.
getLowStockItems(clientId, threshold) ==
    {i \in DOMAIN inventoryTable :
        /\ inventoryTable[i].client_id = clientId
        /\ inventoryTable[i].quantity <= threshold}

\* getLowStockItemsCount: SELECT count(*) ... WHERE client_id = clientId AND
\* quantity - reserved_quantity <= threshold
getLowStockItemsCount(clientId, threshold) ==
    Cardinality({i \in DOMAIN inventoryTable :
                    /\ inventoryTable[i].client_id = clientId
                    /\ inventoryTable[i].quantity
                          - inventoryTable[i].reserved_quantity <= threshold})

\* the store after a run, within the bounds of the model
InventoryCall(op, run) ==
    /\ run.seq.inventory <= MaxInventory
    /\ inventoryTable' = run.inventory
    /\ seq' = run.seq
    /\ last' = [op |-> op, outcome |-> run.outcome]
    /\ UNCHANGED <<productsTable, ordersTable, orderItemsTable, deliveriesTable,
                   calls>>

createInventory(input) ==
    \E run \in createInventoryRuns(input) : InventoryCall("createInventory", run)

updateInventory(input) ==
    \E run \in updateInventoryRuns(input) : InventoryCall("updateInventory", run)

deleteInventory(id) ==
    \E run \in deleteInventoryRuns(id) : InventoryCall("deleteInventory", run)

reserveInventory(productId, clientId, quantity) ==
    \E run \in reserveInventoryRuns(productId, clientId, quantity) :
        InventoryCall("reserveInventory", run)

releaseInventory(productId, clientId, quantity) ==
    \E run \in releaseInventoryRuns(productId, clientId, quantity) :
        InventoryCall("releaseInventory", run)

----------------------------------------------------------------------------
(* Inputs the zod schemas of the router let through *)

updateProductInputSchema ==
    [id : ProductIdInputs, unit_price : optional(ProductPriceInputs)]

createOrderInputSchema == [client_id : ClientIdInputs]

\* createOrder called for any user id, the admin's included
createOrderAnyUser == [client_id : UserIdInputs]

updateOrderInputSchema == [id : OrderIdInputs, status : StatusInputs]

\* updateOrder called with each status of the enumeration
updateOrderAnyStatus == [id : OrderIdInputs, status : orderStatusEnum]

createOrderItemInputSchema ==
    [order_id : OrderIdInputs, product_id : ProductIdInputs,
     quantity : QuantityInputs, unit_price : UnitPriceInputs]

createDeliveryInputSchema == [order_id : OrderIdInputs]

createInventoryInputSchema ==
    [client_id : UserIdInputs, product_id : ProductIdInputs, quantity : StockInputs]

updateInventoryInputSchema ==
    [id : InventoryIdInputs, quantity : optional(StockInputs),
     reserved_quantity : optional(StockInputs)]

\* z.object({ productId: z.number(), clientId: z.number(), quantity: z.number() })
\* puts no sign condition on quantity
reserveInputSchema ==
    [productId : ProductIdInputs, clientId : ClientIdInputs,
     quantity : ReserveQuantityInputs]

\* the calls with a quantity to reserve or release
positiveQuantity == {input \in reserveInputSchema : input.quantity > 0}

----------------------------------------------------------------------------
(* Order handlers run one at a time: the five that keep the total *)

NextOrders ==
    \/ \E input \in createOrderInputSchema : createOrder(input)
    \/ \E input \in updateOrderInputSchema : updateOrder(input)
    \/ \E input \in createOrderItemInputSchema : addOrderItem(input)
    \/ \E id \in ItemIdInputs : removeOrderItem(id)
    \/ \E id \in OrderIdInputs : calculateOrderTotal(id)

SpecOrders == Init /\ [][NextOrders]_vars

(* Every order and delivery handler, run one at a time *)

Next ==
    \/ NextOrders
    \/ \E id \in OrderIdInputs : deleteOrder(id)
    \/ \E input \in createDeliveryInputSchema : createDelivery(input)

Spec == Init /\ [][Next]_vars

(* Items added to and removed from orders while the catalogue price      *)
(* changes                                                                *)

NextCatalogue ==
    \/ \E input \in updateProductInputSchema : updateProduct(input)
    \/ \E input \in createOrderInputSchema : createOrder(input)
    \/ \E input \in createOrderItemInputSchema : addOrderItem(input)
    \/ \E id \in ItemIdInputs : removeOrderItem(id)

SpecCatalogue == Init /\ [][NextCatalogue]_vars

(* The order rows on their own: orders of any user made, edited, given   *)
(* a delivery and deleted, no items                                       *)

NextOrderRows ==
    \/ \E input \in createOrderAnyUser : createOrder(input)
    \/ \E input \in updateOrderInputSchema : updateOrder(input)
    \/ \E id \in OrderIdInputs : deleteOrder(id)
    \/ \E input \in createDeliveryInputSchema : createDelivery(input)

SpecOrderRows == Init /\ [][NextOrderRows]_vars

(* Totals recomputed on demand, orders deleted *)

NextTotals ==
    \/ \E input \in createOrderInputSchema : createOrder(input)
    \/ \E input \in createOrderItemInputSchema : addOrderItem(input)
    \/ \E id \in OrderIdInputs : calculateOrderTotal(id)
    \/ \E id \in OrderIdInputs : deleteOrder(id)

SpecTotals == Init /\ [][NextTotals]_vars

(* Orders moved between statuses *)

NextStatus ==
    \/ \E input \in createOrderAnyUser : createOrder(input)
    \/ \E input \in updateOrderAnyStatus : updateOrder(input)

SpecStatus == Init /\ [][NextStatus]_vars

(* The ledger under rows made by createInventory, then reserve and        *)
(* release of positive quantities                                         *)

NextLedger ==
    \/ \E input \in createInventoryInputSchema : createInventory(input)
    \/ \E input \in positiveQuantity :
          reserveInventory(input.productId, input.clientId, input.quantity)
    \/ \E input \in positiveQuantity :
          releaseInventory(input.productId, input.clientId, input.quantity)

SpecLedger == Init /\ [][NextLedger]_vars

(* The ledger under create, update, reserve and release, positive quantities *)

NextStock ==
    \/ NextLedger
    \/ \E input \in updateInventoryInputSchema : updateInventory(input)

SpecStock == Init /\ [][NextStock]_vars

(* The ledger under every inventory handler, positive quantities *)

NextInventory ==
    \/ NextLedger
    \/ \E input \in updateInventoryInputSchema : updateInventory(input)
    \/ \E id \in InventoryIdInputs : deleteInventory(id)

SpecInventory == Init /\ [][NextInventory]_vars

(* The ledger under every call the router lets through *)

NextRouter ==
    \/ \E input \in createInventoryInputSchema : createInventory(input)
    \/ \E input \in updateInventoryInputSchema : updateInventory(input)
    \/ \E id \in InventoryIdInputs : deleteInventory(id)
    \/ \E input \in reserveInputSchema :
          reserveInventory(input.productId, input.clientId, input.quantity)
    \/ \E input \in reserveInputSchema :
          releaseInventory(input.productId, input.clientId, input.quantity)

SpecRouter == Init /\ [][NextRouter]_vars

----------------------------------------------------------------------------
(* The item handlers statement by statement.  Every await of a handler is   *)
(* one statement on the shared store, committed on its own: no handler     *)
(* opens a transaction.  A call in flight keeps what it has read so far.   *)

Running(pc, op, input, orderId, itemId, total) ==
    [pc |-> pc, op |-> op, input |-> input, orderId |-> orderId,
     itemId |-> itemId, total |-> total]

Returns(p, outcome) ==
    /\ last' = [op |-> calls[p].op, outcome |-> outcome]
    /\ calls' = [calls EXCEPT ![p] = Idle]

\* addOrderItem: SELECT the order
addOrderItem_selectOrder(p, input) ==
    /\ calls[p].pc = "idle"
    /\ IF input.order_id \notin DOMAIN ordersTable
       THEN /\ last' = [op |-> "addOrderItem", outcome |-> "Order not found"]
            /\ UNCHANGED calls
       ELSE /\ calls' = [calls EXCEPT ![p] =
                           Running("selectProduct", "addOrderItem", input,
                                   input.order_id, 0, 0)]
            /\ UNCHANGED last
    /\ UNCHANGED <<productsTable, ordersTable, orderItemsTable, deliveriesTable,
                   inventoryTable, seq>>

\* addOrderItem: SELECT the product
addOrderItem_selectProduct(p) ==
    /\ calls[p].pc = "selectProduct"
    /\ IF calls[p].input.product_id \notin DOMAIN productsTable
       THEN Returns(p, "Product not found")
       ELSE /\ calls' = [calls EXCEPT ![p].pc = "insertItem"]
            /\ UNCHANGED last
    /\ UNCHANGED <<productsTable, ordersTable, orderItemsTable, deliveriesTable,
                   inventoryTable, seq>>

\* addOrderItem: INSERT the item; order_id and product_id are foreign keys
addOrderItem_insert(p) ==
    /\ calls[p].pc = "insertItem"
    /\ LET input == calls[p].input
       IN  IF \/ input.order_id \notin DOMAIN ordersTable
              \/ input.product_id \notin DOMAIN productsTable
           THEN /\ Returns(p, "foreign key violation")
                /\ UNCHANGED <<orderItemsTable, seq>>
           ELSE IF insertItemRows(input) = {}
           THEN /\ Returns(p, "numeric field overflow")
                /\ UNCHANGED <<orderItemsTable, seq>>
           ELSE /\ seq.order_items < MaxItems
                /\ \E row \in insertItemRows(input) :
                     LET id == seq.order_items + 1
                     IN  /\ orderItemsTable' = Insert(orderItemsTable, id, row)
                         /\ seq' = [seq EXCEPT !.order_items = id]
                         /\ calls' = [calls EXCEPT ![p].pc = "selectTotal",
                                                   ![p].itemId = id]
                         /\ UNCHANGED last
    /\ UNCHANGED <<productsTable, ordersTable, deliveriesTable, inventoryTable>>

\* removeOrderItem: SELECT the item
removeOrderItem_select(p, id) ==
    /\ calls[p].pc = "idle"
    /\ IF id \notin DOMAIN orderItemsTable
       THEN /\ last' = [op |-> "removeOrderItem",
                        outcome |-> "Order item not found"]
            /\ UNCHANGED calls
       ELSE /\ calls' = [calls EXCEPT ![p] =
                           Running("deleteItem", "removeOrderItem", id,
                                   orderItemsTable[id].order_id, id, 0)]
            /\ UNCHANGED last
    /\ UNCHANGED <<productsTable, ordersTable, orderItemsTable, deliveriesTable,
                   inventoryTable, seq>>

\* removeOrderItem: DELETE the item
removeOrderItem_delete(p) ==
    /\ calls[p].pc = "deleteItem"
    /\ orderItemsTable' = Delete(orderItemsTable, {calls[p].itemId})
    /\ calls' = [calls EXCEPT ![p].pc = "selectTotal"]
    /\ UNCHANGED <<productsTable, ordersTable, deliveriesTable, inventoryTable,
                   seq, last>>

\* calculateOrderTotal called directly: its SELECT of the sum
calculateOrderTotal_call(p, orderId) ==
    /\ calls[p].pc = "idle"
    /\ calls' = [calls EXCEPT ![p] =
                    Running("updateTotal", "calculateOrderTotal", orderId,
                            orderId, 0, selectTotal(orderItemsTable, orderId))]
    /\ UNCHANGED <<productsTable, ordersTable, orderItemsTable, deliveriesTable,
                   inventoryTable, seq, last>>

\* calculateOrderTotal inside addOrderItem and removeOrderItem: the SELECT
calculateOrderTotal_select(p) ==
    /\ calls[p].pc = "selectTotal"
    /\ calls' = [calls EXCEPT ![p].pc = "updateTotal",
                              ![p].total = selectTotal(orderItemsTable,
                                                       calls[p].orderId)]
    /\ UNCHANGED <<productsTable, ordersTable, orderItemsTable, deliveriesTable,
                   inventoryTable, seq, last>>

\* calculateOrderTotal: the UPDATE, after which the handler returns
calculateOrderTotal_update(p) ==
    /\ calls[p].pc = "updateTotal"
    /\ LET upd == updateTotal(ordersTable, calls[p].orderId, calls[p].total)
       IN  /\ ordersTable' = upd.orders
           /\ Returns(p, upd.outcome)
    /\ UNCHANGED <<productsTable, orderItemsTable, deliveriesTable,
                   inventoryTable, seq>>

\* concurrent callers add single units
StepItemInputs == {input \in createOrderItemInputSchema : input.quantity = 1}

NextSteps ==
    \/ \E input \in createOrderInputSchema : createOrder(input)
    \/ \E p \in Procs, input \in StepItemInputs :
          addOrderItem_selectOrder(p, input)
    \/ \E p \in Procs : addOrderItem_selectProduct(p)
    \/ \E p \in Procs : addOrderItem_insert(p)
    \/ \E p \in Procs, id \in ItemIdInputs : removeOrderItem_select(p, id)
    \/ \E p \in Procs : removeOrderItem_delete(p)
    \/ \E p \in Procs, id \in OrderIdInputs : calculateOrderTotal_call(p, id)
    \/ \E p \in Procs : calculateOrderTotal_select(p)
    \/ \E p \in Procs : calculateOrderTotal_update(p)

SpecSteps == Init /\ [][NextSteps]_vars

\* addOrderItem and removeOrderItem calls alone, interleaved
NextItemSteps ==
    \/ \E input \in createOrderInputSchema : createOrder(input)
    \/ \E p \in Procs, input \in StepItemInputs :
          addOrderItem_selectOrder(p, input)
    \/ \E p \in Procs : addOrderItem_selectProduct(p)
    \/ \E p \in Procs : addOrderItem_insert(p)
    \/ \E p \in Procs, id \in ItemIdInputs : removeOrderItem_select(p, id)
    \/ \E p \in Procs : removeOrderItem_delete(p)
    \/ \E p \in Procs : calculateOrderTotal_select(p)
    \/ \E p \in Procs : calculateOrderTotal_update(p)

SpecItemSteps == Init /\ [][NextItemSteps]_vars

----------------------------------------------------------------------------
(* deleteOrder statement by statement *)

\* the rows that reference an order: order_items.order_id and
\* deliveries.order_id are foreign keys declared without ON DELETE
orderReferencedByDelivery(items, deliveries, id) ==
    \E d \in DOMAIN deliveries : deliveries[d].order_id = id

orderReferenced(items, deliveries, id) ==
    \/ \E i \in DOMAIN items : items[i].order_id = id
    \/ \E d \in DOMAIN deliveries : deliveries[d].order_id = id

\* deleteOrder: SELECT the order
deleteOrder_select(p, id) ==
    /\ calls[p].pc = "idle"
    /\ IF id \notin DOMAIN ordersTable
       THEN /\ last' = [op |-> "deleteOrder", outcome |-> "Order not found"]
            /\ UNCHANGED calls
       ELSE /\ calls' = [calls EXCEPT ![p] =
                           Running("deleteItems", "deleteOrder", id, id, 0, 0)]
            /\ UNCHANGED last
    /\ UNCHANGED <<productsTable, ordersTable, orderItemsTable, deliveriesTable,
                   inventoryTable, seq>>

\* deleteOrder: DELETE FROM order_items WHERE order_id = id
deleteOrder_deleteItems(p) ==
    /\ calls[p].pc = "deleteItems"
    /\ orderItemsTable' =
          Delete(orderItemsTable, itemsOf(orderItemsTable, calls[p].orderId))
    /\ calls' = [calls EXCEPT ![p].pc = "deleteOrderRow"]
    /\ UNCHANGED <<productsTable, ordersTable, deliveriesTable, inventoryTable,
                   seq, last>>

\* deleteOrder: DELETE FROM orders WHERE id = id, refused while a row
\* references the order, after which the handler returns
deleteOrder_deleteOrder(p) ==
    /\ calls[p].pc = "deleteOrderRow"
    /\ IF /\ calls[p].orderId \in DOMAIN ordersTable
          /\ orderReferenced(orderItemsTable, deliveriesTable, calls[p].orderId)
       THEN /\ Returns(p, "foreign key violation")
            /\ UNCHANGED ordersTable
       ELSE /\ Returns(p, "ok")
            /\ ordersTable' = Delete(ordersTable, {calls[p].orderId})
    /\ UNCHANGED <<productsTable, orderItemsTable, deliveriesTable,
                   inventoryTable, seq>>

\* the items added while orders are being deleted: single units at one price
DeleteItemInputs == {input \in StepItemInputs : input.unit_price = 5}

NextDeleteSteps ==
    \/ \E input \in createOrderInputSchema : createOrder(input)
    \/ \E input \in DeleteItemInputs : addOrderItem(input)
    \/ \E p \in Procs, id \in OrderIdInputs : deleteOrder_select(p, id)
    \/ \E p \in Procs : deleteOrder_deleteItems(p)
    \/ \E p \in Procs : deleteOrder_deleteOrder(p)

SpecDeleteSteps == Init /\ [][NextDeleteSteps]_vars

----------------------------------------------------------------------------
(* reserveInventory and releaseInventory statement by statement: the      *)
(* SELECT, then the UPDATE of the values computed from the row read        *)

Holding(pc, op, quantity, id, row) ==
    [pc |-> pc, op |-> op, quantity |-> quantity, id |-> id, row |-> row]

\* reserveInventory: SELECT the rows, then the availability test on the
\* first of them
reserveInventory_select(p, input) ==
    /\ calls[p].pc = "idle"
    /\ LET inventory == selectInventory(input.productId, input.clientId)
       IN  IF inventory = {}
           THEN /\ last' = [op |-> "reserveInventory",
                            outcome |-> InventoryNotFoundError]
                /\ UNCHANGED calls
           ELSE \E first \in inventory :
                  IF insufficient(inventoryTable[first], input.quantity)
                  THEN /\ last' = [op |-> "reserveInventory",
                                   outcome |-> InsufficientError]
                       /\ UNCHANGED calls
                  ELSE /\ calls' = [calls EXCEPT ![p] =
                                      Holding("reserveUpdate", "reserveInventory",
                                              input.quantity, first,
                                              inventoryTable[first])]
                       /\ UNCHANGED last
    /\ UNCHANGED <<productsTable, ordersTable, orderItemsTable, deliveriesTable,
                   inventoryTable, seq>>

\* the UPDATE ... WHERE id = inventory[0].id of a call on a ledger, setting
\* the columns it names to the values computed from the row the call read
inventoryUpdateRunAdding(table, call, columns, newRow) ==
    IF call.id \notin DOMAIN table
    THEN [outcome |-> "ok", inventory |-> table]
    ELSE LET row == [c \in DOMAIN table[call.id] |->
                       IF c \in columns
                       THEN table[call.id][c] + newRow[c] - call.row[c]
                       ELSE table[call.id][c]]
         IN  IF ~ rowInRange(row)
             THEN [outcome |-> "integer out of range", inventory |-> table]
             ELSE [outcome |-> "ok",
                   inventory |-> [table EXCEPT ![call.id] = row]]

inventoryUpdateRun(table, call, columns, newRow) ==
    IF call.id \notin DOMAIN table
    THEN [outcome |-> "ok", inventory |-> table]
    ELSE IF ~ rowInRange(newRow)
    THEN [outcome |-> "integer out of range", inventory |-> table]
    ELSE [outcome |-> "ok",
          inventory |->
             [table EXCEPT ![call.id] =
                 [c \in DOMAIN table[call.id] |->
                     IF c \in columns THEN newRow[c] ELSE table[call.id][c]]]]

\* reserveInventory's UPDATE of a held call on a ledger
reserveUpdateRun(table, call) ==
    inventoryUpdateRun(table, call, {"reserved_quantity"},
                       reserveSet(call.row, call.quantity))

\* releaseInventory's UPDATE of a held call on a ledger
releaseUpdateRun(table, call) ==
    inventoryUpdateRun(table, call, {"quantity", "reserved_quantity"},
                       releaseSet(call.row, call.quantity))

\* a held call runs its UPDATE on the store and returns
inventoryUpdate(p, run) ==
    /\ Returns(p, run.outcome)
    /\ inventoryTable' = run.inventory

\* reserveInventory: UPDATE reserved_quantity from the row read
reserveInventory_update(p) ==
    /\ calls[p].pc = "reserveUpdate"
    /\ inventoryUpdate(p, reserveUpdateRun(inventoryTable, calls[p]))
    /\ UNCHANGED <<productsTable, ordersTable, orderItemsTable, deliveriesTable,
                   seq>>

\* releaseInventory: SELECT the rows, then the reserved test on the first
releaseInventory_select(p, input) ==
    /\ calls[p].pc = "idle"
    /\ LET inventory == selectInventory(input.productId, input.clientId)
       IN  IF inventory = {}
           THEN /\ last' = [op |-> "releaseInventory",
                            outcome |-> InventoryNotFoundError]
                /\ UNCHANGED calls
           ELSE \E first \in inventory :
                  IF overReserved(inventoryTable[first], input.quantity)
                  THEN /\ last' = [op |-> "releaseInventory",
                                   outcome |-> OverReleaseError]
                       /\ UNCHANGED calls
                  ELSE /\ calls' = [calls EXCEPT ![p] =
                                      Holding("releaseUpdate", "releaseInventory",
                                              input.quantity, first,
                                              inventoryTable[first])]
                       /\ UNCHANGED last
    /\ UNCHANGED <<productsTable, ordersTable, orderItemsTable, deliveriesTable,
                   inventoryTable, seq>>

\* releaseInventory: UPDATE quantity and reserved_quantity from the row read
releaseInventory_update(p) ==
    /\ calls[p].pc = "releaseUpdate"
    /\ inventoryUpdate(p, releaseUpdateRun(inventoryTable, calls[p]))
    /\ UNCHANGED <<productsTable, ordersTable, orderItemsTable, deliveriesTable,
                   seq>>

NextLedgerSteps ==
    \/ \E input \in createInventoryInputSchema : createInventory(input)
    \/ \E p \in Procs, input \in positiveQuantity :
          reserveInventory_select(p, input)
    \/ \E p \in Procs : reserveInventory_update(p)
    \/ \E p \in Procs, input \in positiveQuantity :
          releaseInventory_select(p, input)
    \/ \E p \in Procs : releaseInventory_update(p)

SpecLedgerSteps == Init /\ [][NextLedgerSteps]_vars

\* reserveInventory calls alone, interleaved
NextReserveSteps ==
    \/ \E input \in createInventoryInputSchema : createInventory(input)
    \/ \E p \in Procs, input \in positiveQuantity :
          reserveInventory_select(p, input)
    \/ \E p \in Procs : reserveInventory_update(p)

SpecReserveSteps == Init /\ [][NextReserveSteps]_vars

----------------------------------------------------------------------------
(* Properties of the inventory ledger.  A property of a call is stated    *)
(* over every run of the handler from every reachable store.              *)

\* C3: under createInventory and reserve / release of positive quantities,
\* run one at a time, every row keeps 0 <= reserved_quantity <= quantity
C3_ReservedWithinQuantity ==
    \A i \in DOMAIN inventoryTable :
        /\ 0 <= inventoryTable[i].reserved_quantity
        /\ inventoryTable[i].reserved_quantity <= inventoryTable[i].quantity

\* a release has gone through and a row still holds reserved stock
C3_Witness ==
    /\ last.op = "releaseInventory"
    /\ last.outcome = "ok"
    /\ \E i \in DOMAIN inventoryTable :
          /\ inventoryTable[i].reserved_quantity > 0
          /\ inventoryTable[i].quantity >= inventoryTable[i].reserved_quantity

\* C4: reserveInventory fails as insufficient exactly when the quantity asked
\* for exceeds quantity - reserved_quantity of the matched row, and a failing
\* call changes no row
C4_ReserveFailsIffInsufficient ==
    \A input \in reserveInputSchema :
        \A run \in reserveInventoryRuns(input.productId, input.clientId,
                                        input.quantity) :
            /\ (run.ret # 0) =>
                  ((run.outcome = InsufficientError) <=>
                   (input.quantity > inventoryTable[run.ret].quantity
                                     - inventoryTable[run.ret].reserved_quantity))
            /\ (run.outcome # "ok") => (run.inventory = inventoryTable)

\* a reserve has just been refused as insufficient, and every row in
\* stock is held in full
C4_Witness ==
    /\ last.op = "reserveInventory"
    /\ last.outcome = InsufficientError
    /\ \E i \in DOMAIN inventoryTable : inventoryTable[i].quantity > 0
    /\ \A i \in DOMAIN inventoryTable :
          inventoryTable[i].reserved_quantity = inventoryTable[i].quantity

\* C5: releaseInventory fails as over-release exactly when the quantity asked
\* for exceeds reserved_quantity of the matched row, and a failing call
\* changes no row
C5_ReleaseFailsIffOverReserved ==
    \A input \in reserveInputSchema :
        \A run \in releaseInventoryRuns(input.productId, input.clientId,
                                        input.quantity) :
            /\ (run.ret # 0) =>
                  ((run.outcome = OverReleaseError) <=>
                   (input.quantity > inventoryTable[run.ret].reserved_quantity))
            /\ (run.outcome # "ok") => (run.inventory = inventoryTable)

\* a release has just been refused as over-release while every row holds
\* one reserved unit
C5_Witness ==
    /\ last.op = "releaseInventory"
    /\ last.outcome = OverReleaseError
    /\ inventoryTable # Empty
    /\ \A i \in DOMAIN inventoryTable : inventoryTable[i].reserved_quantity = 1

\* C6: a successful reserveInventory raises reserved_quantity of the matched
\* row by the quantity asked for and leaves its quantity as it was
C6_ReserveIsSoftHold ==
    \A input \in reserveInputSchema :
        \A run \in reserveInventoryRuns(input.productId, input.clientId,
                                        input.quantity) :
            (run.outcome = "ok") =>
                /\ run.inventory[run.ret].reserved_quantity =
                      inventoryTable[run.ret].reserved_quantity + input.quantity
                /\ run.inventory[run.ret].quantity = inventoryTable[run.ret].quantity

\* a reserve has just gone through and the only row holds part of its
\* stock, none of which has left
C6_Witness ==
    /\ last.op = "reserveInventory"
    /\ last.outcome = "ok"
    /\ DOMAIN inventoryTable = {1}
    /\ seq.inventory = 1
    /\ inventoryTable[1].quantity = 2
    /\ inventoryTable[1].reserved_quantity = 1

\* C7: a successful releaseInventory lowers quantity and reserved_quantity of
\* the matched row by the quantity asked for, so quantity - reserved_quantity
\* stays the same
C7_ReleaseTakesBoth ==
    \A input \in reserveInputSchema :
        \A run \in releaseInventoryRuns(input.productId, input.clientId,
                                        input.quantity) :
            (run.outcome = "ok") =>
                /\ run.inventory[run.ret].quantity =
                      inventoryTable[run.ret].quantity - input.quantity
                /\ run.inventory[run.ret].reserved_quantity =
                      inventoryTable[run.ret].reserved_quantity - input.quantity
                /\ availableQuantity(run.inventory[run.ret]) =
                      availableQuantity(inventoryTable[run.ret])

\* a release has just gone through and the only row is left with one unit
\* in stock, none of it reserved
C7_Witness ==
    /\ last.op = "releaseInventory"
    /\ last.outcome = "ok"
    /\ DOMAIN inventoryTable = {1}
    /\ seq.inventory = 1
    /\ inventoryTable[1].quantity = 1
    /\ inventoryTable[1].reserved_quantity = 0

\* C8: a reserveInventory or releaseInventory call with quantity <= 0 is
\* rejected and changes no inventory row
C8_NonPositiveRejected ==
    \A input \in reserveInputSchema :
        (input.quantity <= 0) =>
            \A run \in reserveInventoryRuns(input.productId, input.clientId,
                                            input.quantity)
                       \cup releaseInventoryRuns(input.productId, input.clientId,
                                                 input.quantity) :
                /\ run.outcome # "ok"
                /\ run.inventory = inventoryTable

----------------------------------------------------------------------------
(* Properties of the order total *)

\* the sum of total_price over the items of an order, in cents
ItemSumIn(items, orderId) ==
    SumPrices(items, {i \in DOMAIN items : items[i].order_id = orderId})

ItemSum(orderId) == ItemSumIn(orderItemsTable, orderId)

\* C1: in every state of the store, the states between the statements of
\* addOrderItem and removeOrderItem included, every order's total_amount is
\* the sum of total_price of its items
C1_TotalIsSumAtAllTimes ==
    \A o \in DOMAIN ordersTable : ordersTable[o].total_amount = ItemSum(o)

\* C2: with createOrder, addOrderItem, removeOrderItem, updateOrder and
\* calculateOrderTotal run one at a time, after every completed call,
\* failed ones included, every order's total_amount is the sum of its items
C2_TotalIsSumAfterEveryCall ==
    (last.op \in {"none", "createOrder", "addOrderItem", "removeOrderItem",
                  "updateOrder", "calculateOrderTotal"}) =>
        \A o \in DOMAIN ordersTable : ItemSum(o) = ordersTable[o].total_amount

\* C9: a successful addOrderItem creates exactly one item, whose total_price
\* is quantity x unitPrice in cents, raises the total_amount of its order by
\* that total_price and leaves the other orders and their items alone
C9_AddRaisesTotalByItem ==
    \A input \in createOrderItemInputSchema :
        \A run \in addOrderItemRuns(input) :
            (run.outcome = "ok") =>
                LET id == run.ret
                    item == run.items[id]
                IN  /\ id \notin DOMAIN orderItemsTable
                    /\ DOMAIN run.items = DOMAIN orderItemsTable \cup {id}
                    /\ \A i \in DOMAIN orderItemsTable :
                          run.items[i] = orderItemsTable[i]
                    /\ item.order_id = input.order_id
                    /\ item.quantity = input.quantity
                    /\ 10 * item.total_price - input.quantity * input.unit_price
                          \in -5 .. 5
                    /\ DOMAIN run.orders = DOMAIN ordersTable
                    /\ run.orders[input.order_id].total_amount =
                          ordersTable[input.order_id].total_amount + item.total_price
                    /\ \A o \in DOMAIN ordersTable \ {input.order_id} :
                          run.orders[o] = ordersTable[o]

\* C10: a successful removeOrderItem deletes exactly that item, leaves the
\* total_amount of its former order equal to the sum of the items that
\* remain, and leaves the other orders and their items alone
C10_RemoveLeavesSumOfRest ==
    \A id \in ItemIdInputs :
        \A run \in removeOrderItemRuns(id) :
            (run.outcome = "ok") =>
                LET orderId == run.ret
                IN  /\ id \in DOMAIN orderItemsTable
                    /\ orderItemsTable[id].order_id = orderId
                    /\ DOMAIN run.items = DOMAIN orderItemsTable \ {id}
                    /\ \A i \in DOMAIN run.items : run.items[i] = orderItemsTable[i]
                    /\ DOMAIN run.orders = DOMAIN ordersTable
                    /\ run.orders[orderId].total_amount = ItemSumIn(run.items, orderId)
                    /\ \A o \in DOMAIN ordersTable \ {orderId} :
                          run.orders[o] = ordersTable[o]

\* an item has just been removed; of the two orders one is left without
\* items and with total 0, the other holds an item that is its total
C10_Witness ==
    /\ last.op = "removeOrderItem"
    /\ last.outcome = "ok"
    /\ seq.order_items = 2
    /\ \E a, b \in DOMAIN ordersTable :
          /\ itemsOf(orderItemsTable, a) = {}
          /\ ordersTable[a].total_amount = 0
          /\ ItemSum(b) > 0
          /\ ordersTable[b].total_amount = ItemSum(b)

----------------------------------------------------------------------------
(* Properties of the other order handlers *)

\* C11: for every existing order, deleteOrder removes the order and all of
\* its items: afterwards no order with that id and no item of it remains
C11_DeleteRemovesOrderAndItems ==
    \A id \in DOMAIN ordersTable :
        \A run \in deleteOrderRuns(id) :
            /\ id \notin DOMAIN run.orders
            /\ \A i \in DOMAIN run.items : run.items[i].order_id # id

\* C12: calculateOrderTotal on an existing order returns the sum of
\* total_price of its items, 0 and no error when it has none, and stores
\* the value it returns in total_amount
C12_RecomputeReturnsAndStoresSum ==
    \A orderId \in DOMAIN ordersTable :
        \A run \in calculateOrderTotalRuns(orderId) :
            /\ run.outcome = "ok"
            /\ run.ret = 10 * ItemSum(orderId)
            /\ 10 * run.orders[orderId].total_amount = run.ret

\* C13: calculateOrderTotal is idempotent: a second call right after the
\* first, with no item changed in between, returns what the first returned
\* and leaves every total_amount and every item as the first left them
C13_RecomputeIdempotent ==
    \A orderId \in OrderIdInputs :
        \A first \in calculateOrderTotalRuns(orderId) :
            LET second == calculateOrderTotalFrom(first.orders, first.items, orderId)
            IN  /\ second.outcome = first.outcome
                /\ second.ret = first.ret
                /\ second.orders = first.orders
                /\ second.items = first.items
                /\ first.items = orderItemsTable

\* calculateOrderTotal has just returned on a store where an order holds
\* items and its total_amount is their sum
C13_Witness ==
    /\ last.op = "calculateOrderTotal"
    /\ last.outcome = "ok"
    /\ \E o \in DOMAIN ordersTable :
          ItemSum(o) > 0 /\ ordersTable[o].total_amount = ItemSum(o)

\* C14: createOrder succeeds for every existing user, admin or client, and
\* makes one order with status pending, total_amount 0 and no items; for a
\* client_id that matches no user it fails as not found and makes no order
C14_CreateOrderAnyRole ==
    \A input \in createOrderAnyUser :
        \A run \in createOrderRuns(input) :
            IF input.client_id \in DOMAIN usersTable
            THEN /\ run.outcome = "ok"
                 /\ run.ret \notin DOMAIN ordersTable
                 /\ DOMAIN run.orders = DOMAIN ordersTable \cup {run.ret}
                 /\ run.orders[run.ret] =
                       [client_id |-> input.client_id, status |-> "pending",
                        total_amount |-> 0]
                 /\ \A o \in DOMAIN ordersTable : run.orders[o] = ordersTable[o]
                 /\ run.items = orderItemsTable
                 /\ \A i \in DOMAIN run.items : run.items[i].order_id # run.ret
            ELSE /\ run.outcome = "Client not found"
                 /\ run.orders = ordersTable
                 /\ run.items = orderItemsTable

\* createOrder has just made an order, and an order of the admin stands
\* pending with total 0
C14_Witness ==
    /\ last.op = "createOrder"
    /\ last.outcome = "ok"
    /\ \E o \in DOMAIN ordersTable :
          /\ usersTable[ordersTable[o].client_id].role = "admin"
          /\ ordersTable[o].status = "pending"
          /\ ordersTable[o].total_amount = 0

----------------------------------------------------------------------------
(* Properties of the other inventory handlers *)

\* C15: createInventory fails and makes no row when client_id is not the id
\* of a user with role client or product_id is the id of no product; every
\* row it makes has reserved_quantity 0
C15_CreateInventoryChecksClient ==
    \A input \in createInventoryInputSchema :
        \A run \in createInventoryRuns(input) :
            /\ (\/ input.client_id \notin DOMAIN usersTable
                \/ usersTable[input.client_id].role # "client"
                \/ input.product_id \notin DOMAIN productsTable) =>
                  /\ run.outcome # "ok"
                  /\ run.inventory = inventoryTable
            /\ (run.outcome = "ok") =>
                  /\ run.ret \notin DOMAIN inventoryTable
                  /\ DOMAIN run.inventory = DOMAIN inventoryTable \cup {run.ret}
                  /\ run.inventory[run.ret].reserved_quantity = 0
                  /\ run.inventory[run.ret].quantity = input.quantity
                  /\ \A i \in DOMAIN inventoryTable :
                        run.inventory[i] = inventoryTable[i]

\* createInventory has just been refused for a user that is no client,
\* after it made a row, which holds stock and no reservation
C15_Witness ==
    /\ last.op = "createInventory"
    /\ last.outcome = "Client not found or user is not a client"
    /\ seq.inventory = 1
    /\ DOMAIN inventoryTable = {1}
    /\ inventoryTable[1].quantity > 0
    /\ inventoryTable[1].reserved_quantity = 0

\* C16: getLowStockItems(clientId, threshold) returns exactly the rows of
\* that client whose quantity - reserved_quantity is at most the threshold,
\* whatever their reserved_quantity
C16_LowStockByAvailable ==
    \A clientId \in UserIdInputs, threshold \in ThresholdInputs :
        getLowStockItems(clientId, threshold) =
            {i \in DOMAIN inventoryTable :
                /\ inventoryTable[i].client_id = clientId
                /\ inventoryTable[i].quantity - inventoryTable[i].reserved_quantity
                      <= threshold}

\* C17: reserveInventory and releaseInventory called for a product and
\* client that have no inventory row fail as inventory not found, make no
\* row and change no row
C17_NoRowNotFound ==
    \A input \in reserveInputSchema :
        (~ \E i \in DOMAIN inventoryTable :
              /\ inventoryTable[i].product_id = input.productId
              /\ inventoryTable[i].client_id = input.clientId) =>
            \A run \in reserveInventoryRuns(input.productId, input.clientId,
                                            input.quantity)
                       \cup releaseInventoryRuns(input.productId, input.clientId,
                                                 input.quantity) :
                /\ run.outcome = InventoryNotFoundError
                /\ run.inventory = inventoryTable
                /\ run.seq = seq

\* a reserve has just failed as not found while the ledger holds a row,
\* for another product and client pair, with stock to reserve
C17_Witness ==
    /\ last.op = "reserveInventory"
    /\ last.outcome = InventoryNotFoundError
    /\ \E i \in DOMAIN inventoryTable :
          inventoryTable[i].quantity > inventoryTable[i].reserved_quantity

\* every run of an order handler from the current store
OrderRuns ==
    UNION ({createOrderRuns(input) : input \in createOrderAnyUser}
           \cup {updateOrderRuns(input) : input \in updateOrderInputSchema}
           \cup {addOrderItemRuns(input) : input \in createOrderItemInputSchema}
           \cup {removeOrderItemRuns(id) : id \in ItemIdInputs}
           \cup {calculateOrderTotalRuns(id) : id \in OrderIdInputs}
           \cup {deleteOrderRuns(id) : id \in OrderIdInputs})

\* C18: updateOrder, whatever it is given, leaves every total_amount and
\* every item as they were; a handler that leaves an order with another
\* total_amount than it had has set it to the sum of the order's items, as
\* calculateOrderTotal does, and a new order starts at 0
C18_TotalNeverSetByCaller ==
    /\ \A input \in updateOrderInputSchema :
          \A run \in updateOrderRuns(input) :
              /\ DOMAIN run.orders = DOMAIN ordersTable
              /\ \A o \in DOMAIN ordersTable :
                    run.orders[o].total_amount = ordersTable[o].total_amount
              /\ run.items = orderItemsTable
    /\ \A run \in OrderRuns :
          \A o \in DOMAIN run.orders :
              IF o \in DOMAIN ordersTable
              THEN \/ run.orders[o].total_amount = ordersTable[o].total_amount
                   \/ run.orders[o].total_amount = ItemSumIn(run.items, o)
              ELSE run.orders[o].total_amount = 0

\* updateOrder has just confirmed an order, and a confirmed order holds
\* items and their sum as its total
C18_Witness ==
    /\ last.op = "updateOrder"
    /\ last.outcome = "ok"
    /\ \E o \in DOMAIN ordersTable :
          /\ ordersTable[o].status = "confirmed"
          /\ ordersTable[o].total_amount > 0
          /\ ordersTable[o].total_amount = ItemSum(o)

\* C19: an item's unit_price and total_price come from the price the
\* caller of addOrderItem sends, whatever the product's price; a later
\* updateProduct, changing the product's unit_price or not, leaves every
\* item and every order's total_amount as they were
C19_ItemPriceIsSnapshot ==
    /\ \A input \in createOrderItemInputSchema :
          \A run \in addOrderItemRuns(input) :
              (run.outcome = "ok") =>
                  /\ run.items[run.ret].unit_price = NumericRound(input.unit_price)
                  /\ run.items[run.ret].total_price
                        \in totalPrice(input.quantity, input.unit_price)
    /\ \A input \in updateProductInputSchema :
          \A run \in updateProductRuns(input) :
              /\ run.items = orderItemsTable
              /\ run.orders = ordersTable

\* updateProduct has just gone through, the product now costs more than
\* an item of it was sold for, and that item is the total of its order
C19_Witness ==
    /\ last.op = "updateProduct"
    /\ last.outcome = "ok"
    /\ \E i \in DOMAIN orderItemsTable :
          /\ productsTable[orderItemsTable[i].product_id].unit_price
                > orderItemsTable[i].unit_price
          /\ ordersTable[orderItemsTable[i].order_id].total_amount =
                orderItemsTable[i].total_price

\* C20: with reserveInventory and releaseInventory calls on a row running
\* concurrently, each a read followed by a write of the values computed
\* from what it read, every state keeps 0 <= reserved_quantity <= quantity
C20_ReservedWithinQuantityConcurrent ==
    \A i \in DOMAIN inventoryTable :
        inventoryTable[i].reserved_quantity \in 0 .. inventoryTable[i].quantity

\* two reserveInventory calls that have both read the same row before
\* either has written it
BothRead(p, q) ==
    /\ p # q
    /\ calls[p].pc = "reserveUpdate"
    /\ calls[q].pc = "reserveUpdate"
    /\ calls[p].id = calls[q].id
    /\ calls[p].id \in DOMAIN inventoryTable
    /\ calls[p].row = inventoryTable[calls[p].id]
    /\ calls[q].row = inventoryTable[calls[q].id]

\* C21: two reserveInventory calls on a row race: when both have read the
\* row before either writes, both writes succeed and the row's
\* reserved_quantity ends at what was read plus the quantity of the call
\* that wrote last, the other call's hold being lost
C21_ReserveLostUpdate ==
    \A p, q \in Procs :
        BothRead(p, q) =>
            LET id == calls[p].id
                first == reserveUpdateRun(inventoryTable, calls[p])
                second == reserveUpdateRun(first.inventory, calls[q])
            IN  /\ first.outcome = "ok"
                /\ second.outcome = "ok"
                /\ first.inventory[id].reserved_quantity =
                      inventoryTable[id].reserved_quantity + calls[p].quantity
                /\ second.inventory[id].reserved_quantity =
                      inventoryTable[id].reserved_quantity + calls[q].quantity
                /\ second.inventory[id].quantity = inventoryTable[id].quantity

\* both calls have read the row and passed the availability test, for
\* quantities that together exceed what the row has available
C21_Witness ==
    \E p, q \in Procs :
        /\ BothRead(p, q)
        /\ calls[p].quantity + calls[q].quantity >
              availableQuantity(inventoryTable[calls[p].id])

\* C22: with addOrderItem and removeOrderItem calls on an order running
\* concurrently, statement by statement, once every call has completed the
\* order's total_amount is the sum of total_price of its items
C22_TotalIsSumOnceQuiet ==
    (\A p \in Procs : calls[p].pc = "idle") =>
        \A o \in DOMAIN ordersTable : ordersTable[o].total_amount = ItemSum(o)

\* C23: under createInventory, updateInventory, reserveInventory and
\* releaseInventory run one at a time, non-negative quantities on create and
\* update and positive ones on reserve and release, every row keeps
\* quantity >= 0 and reserved_quantity >= 0
C23_StockNonNegative ==
    \A i \in DOMAIN inventoryTable :
        /\ inventoryTable[i].quantity >= 0
        /\ inventoryTable[i].reserved_quantity >= 0

\* C24: updateInventory compares no fields: on an existing row, a call that
\* supplies only quantity, or only reserved_quantity, succeeds, writes the
\* field supplied and leaves the other field and the other rows as they
\* were, whether or not the row then has reserved_quantity > quantity
C24_UpdateNoCrossCheck ==
    \A input \in updateInventoryInputSchema :
        (input.id \in DOMAIN inventoryTable) =>
            \A run \in updateInventoryRuns(input) :
                /\ run.outcome = "ok"
                /\ DOMAIN run.inventory = DOMAIN inventoryTable
                /\ \A i \in DOMAIN inventoryTable \ {input.id} :
                      run.inventory[i] = inventoryTable[i]
                /\ run.inventory[input.id].quantity =
                      IF input.quantity = undefined
                      THEN inventoryTable[input.id].quantity
                      ELSE input.quantity[1]
                /\ run.inventory[input.id].reserved_quantity =
                      IF input.reserved_quantity = undefined
                      THEN inventoryTable[input.id].reserved_quantity
                      ELSE input.reserved_quantity[1]

\* an updateInventory has gone through and left a row holding more than
\* it has
C24_Witness ==
    /\ last.op = "updateInventory"
    /\ last.outcome = "ok"
    /\ \E i \in DOMAIN inventoryTable :
          inventoryTable[i].reserved_quantity > inventoryTable[i].quantity

\* C25: deleteOrder deletes the items of the order before the order row, so
\* in every state during and after a deleteOrder call every remaining
\* item's order_id is the id of an order that still exists
C25_NoOrphanItems ==
    \A i \in DOMAIN orderItemsTable :
        orderItemsTable[i].order_id \in DOMAIN ordersTable

\* a deleteOrder has removed an order while another order keeps an item
C25_Witness ==
    /\ last.op = "deleteOrder"
    /\ last.outcome = "ok"
    /\ seq.orders > Cardinality(DOMAIN ordersTable)
    /\ orderItemsTable # Empty

\* C26: a deleteOrder that fails leaves the store as it was: when the delete
\* of the order row is refused because a delivery references the order, the
\* order keeps its items and its total_amount
C26_FailedDeleteChangesNothing ==
    \A id \in OrderIdInputs :
        \A run \in deleteOrderRuns(id) :
            (run.outcome # "ok") =>
                /\ run.orders = ordersTable
                /\ run.items = orderItemsTable

\* the rows of the current ledger other than one are the same in a ledger
OtherRowsSame(inventory, id) ==
    \A i \in DOMAIN inventoryTable \ {id} :
        i \in DOMAIN inventory /\ inventory[i] = inventoryTable[i]

\* C27: createInventory succeeds for a client and product that already have
\* a row, adding another row for the pair, and a successful reserveInventory
\* or releaseInventory for a pair changes one matching row, the first the
\* query returns, and leaves every other row as it was
C27_DuplicateRowsOneChanged ==
    /\ \A input \in createInventoryInputSchema :
          (selectClient(input.client_id) # {}
           /\ input.product_id \in DOMAIN productsTable) =>
              \A run \in createInventoryRuns(input) :
                  /\ run.outcome = "ok"
                  /\ run.ret \notin DOMAIN inventoryTable
                  /\ run.inventory[run.ret].client_id = input.client_id
                  /\ run.inventory[run.ret].product_id = input.product_id
                  /\ OtherRowsSame(run.inventory, run.ret)
    /\ \A input \in reserveInputSchema :
          \A run \in reserveInventoryRuns(input.productId, input.clientId,
                                          input.quantity)
                     \cup releaseInventoryRuns(input.productId, input.clientId,
                                               input.quantity) :
              (run.outcome = "ok") =>
                  /\ run.ret \in selectInventory(input.productId, input.clientId)
                  /\ DOMAIN run.inventory = DOMAIN inventoryTable
                  /\ OtherRowsSame(run.inventory, run.ret)

\* a reserve has gone through on a ledger with two rows for one client and
\* product, one of them holding stock and the other holding none
C27_Witness ==
    /\ last.op = "reserveInventory"
    /\ last.outcome = "ok"
    /\ \E i, j \in DOMAIN inventoryTable :
          /\ i # j
          /\ inventoryTable[i].client_id = inventoryTable[j].client_id
          /\ inventoryTable[i].product_id = inventoryTable[j].product_id
          /\ inventoryTable[i].quantity = inventoryTable[j].quantity
          /\ inventoryTable[i].reserved_quantity > 0
          /\ inventoryTable[j].reserved_quantity = 0

\* C28: no transition graph is enforced on the order status: for every
\* status s an order is in and every status t of the enumeration,
\* updateOrder of that order with status t succeeds and leaves it in t,
\* its total and the other orders as they were
C28_AnyStatusToAnyStatus ==
    /\ \A o \in DOMAIN ordersTable : ordersTable[o].status \in orderStatusEnum
    /\ \A input \in updateOrderAnyStatus :
          (input.id \in DOMAIN ordersTable) =>
              \A run \in updateOrderRuns(input) :
                  /\ run.outcome = "ok"
                  /\ run.orders =
                        [ordersTable EXCEPT ![input.id].status = input.status]

\* an updateOrder has gone through with one order cancelled and another
\* delivered
C28_Witness ==
    /\ last.op = "updateOrder"
    /\ last.outcome = "ok"
    /\ \E o, n \in DOMAIN ordersTable :
          /\ ordersTable[o].status = "cancelled"
          /\ ordersTable[n].status = "delivered"

\* C29: calculateOrderTotal called with an id that matches no order returns
\* 0 without an error and leaves the store as it was: no order is created
\* and no order's total_amount changes
C29_RecomputeOfMissingOrder ==
    \A id \in OrderIdInputs \ DOMAIN ordersTable :
        \A run \in calculateOrderTotalRuns(id) :
            /\ run.outcome = "ok"
            /\ run.ret = 0
            /\ run.orders = ordersTable
            /\ run.items = orderItemsTable
            /\ run.seq = seq

\* a calculateOrderTotal has returned while the one order in the store has
\* a total_amount that is not the sum of its items: the call was for an id
\* with no order and left that total alone
C29_Witness ==
    /\ last.op = "calculateOrderTotal"
    /\ last.outcome = "ok"
    /\ Cardinality(DOMAIN ordersTable) = 1
    /\ \E o \in DOMAIN ordersTable :
          /\ ordersTable[o].total_amount > 0
          /\ ordersTable[o].total_amount # ItemSum(o)

\* C30: for every store, client and threshold, getLowStockItemsCount is the
\* number of rows getLowStockItems returns
C30_CountMatchesList ==
    \A clientId \in UserIdInputs, threshold \in ThresholdInputs :
        getLowStockItemsCount(clientId, threshold) =
            Cardinality(getLowStockItems(clientId, threshold))

====
